---- MODULE Spec2Model ----
(***************************************************************************)
(* Model of the level scene (class MapScene) and of its actor controller   *)
(* (class Player): the flag-based state machine driven by Player.update,   *)
(* the animation-completion handler, the arcade physics step that moves    *)
(* the actor, and the depth sorting of the scenery in MapScene.update.     *)
(***************************************************************************)
EXTENDS Integers, Naturals, FiniteSets, Sequences, TLC

VARIABLES player, held, steps, last, playerDepth, depthSortedObjects, scene

vars == <<player, held, steps, last, playerDepth, depthSortedObjects, scene>>

(***************************************************************************)
(* Bounds of the model.                                                    *)
(***************************************************************************)
\* the actor moves on a grid of (MaxCoord+1) x (MaxCoord+1) positions
MaxCoord == 1
\* at most this many physics steps run between two calls of Player.update
MaxPhysicsSteps == 2
\* pixels between two neighbouring positions of the grid
CellPx == 400
\* the object layer "collision" holds at most this many objects
MaxObjects == 2
\* at most this many of the actor's trigger keys go down between two ticks
MaxJustDown == 2
\* the most objects of an animation object layer, and sprites of a registry
MaxSprites == 2

(***************************************************************************)
(* Program constants.                                                      *)
(***************************************************************************)
speed == 150
Drag == 300
PhysicsFps == 60
DragPerStep == Drag \div PhysicsFps
\* createPlayer: centre of the map; resetCharacter: centre of the camera
SpawnX == 1
SpawnY == 1
CameraCenterX == 0
CameraCenterY == 0

\* the game canvas; the main camera's centre is the centre of the canvas
GameWidth == 800
GameHeight == 600

\* MapScene.update: depth sorting of the scenery (alpha in percent)
PlayerCreateDepth == 10
PlayerDepth == 200
obeliskPhysicsY == 500
obeliskHeight == 256
obeliskSplitPercent == 65
FrontDepth == 1000
BehindDepth == 50
ObeliskFrontAlpha == 60
OpaqueAlpha == 100
stoneSectorWidth == 259
stoneSectorHeight == 500
StoneSectorInsideAlpha == 70
DepthLinePx == 32

\* a tile object of the layers animation_object and animation_object2;
\* gid 0 stands for an object without gid
TileObject(gid, x, y, width, height) ==
    [gid |-> gid, x |-> x, y |-> y, width |-> width, height |-> height]

\* an unknown gid taken for a plant
textureOf_defaultsToPlant(gid) ==
    IF gid = 11169 THEN "water_fall"
    ELSE IF gid = 11177 THEN "bridge_building"
    ELSE IF gid = 11185 THEN "obelisk_tower"
    ELSE IF gid = 11193 THEN "arcade_building"
    ELSE IF gid = 11209 THEN "armory_blacksmith"
    ELSE IF gid # 0 /\ gid >= 11223 /\ gid <= 11225 THEN "stone_sector"
    ELSE "plant_tree"

\* createAnimatedSprite: the texture family of initialFrame for a gid, "none"
\* when no branch matches and initialFrame stays empty
textureOf(gid) ==
    IF gid = 11169 THEN "water_fall"
    ELSE IF gid = 11177 THEN "bridge_building"
    ELSE IF gid = 11185 THEN "obelisk_tower"
    ELSE IF gid = 11193 THEN "arcade_building"
    ELSE IF gid = 11209 THEN "armory_blacksmith"
    ELSE IF gid # 0 /\ gid >= 11215 /\ gid <= 11221 THEN "plant_tree"
    ELSE IF gid # 0 /\ gid >= 11223 /\ gid <= 11225 THEN "stone_sector"
    ELSE "none"

\* a sprite as createAnimatedSprite leaves it: origin (0, 1), so (x, y) is
\* its bottom-left corner; display size from the object; depth 0, alpha 1
Sprite(texture, x, y, width, height) ==
    [texture |-> texture, x |-> x, y |-> y, width |-> width,
     height |-> height, depth |-> 0, alpha |-> OpaqueAlpha]

\* createAnimatedSprite returns a sprite, or null for a gid it does not know
returnsSprite(obj) == textureOf(obj.gid) # "none"

createAnimatedSprite(obj) ==
    Sprite(textureOf(obj.gid), obj.x, obj.y, obj.width, obj.height)

\* objectLayer.objects.forEach of createAnimatedObjects: the sprites added
\* to the group, in the order of the layer's objects
spritesOf(objects) ==
    LET made == SelectSeq(objects, returnsSprite)
    IN  [i \in DOMAIN made |-> createAnimatedSprite(made[i])]

\* the sprites of animation_object get the fixed depth 5
FixedDepth == 5
fixedDepthSpritesOf(objects) ==
    LET sprites == spritesOf(objects)
    IN  [i \in DOMAIN sprites |-> [sprites[i] EXCEPT !.depth = FixedDepth]]

\* the level's layers animation_object and animation_object2
DefaultObjectLayer1 == <<TileObject(11169, 200, 200, 64, 64)>>
DefaultObjectLayer2 ==
    <<TileObject(11185, 400, 750, 128, 256),
      TileObject(11225, 300, 600, 259, 500),
      TileObject(11215, 100, 750, 32, 48)>>

\* the sprites of the depth-sorted object layer of the level
SceneryObjects == spritesOf(DefaultObjectLayer2)

MoveKeys == {"W", "A", "S", "D"}
JustKeys == {"R", "H", "P", "J", "K", "L"}
\* the sets of keys for which JustDown is true in one call of Player.update
JustDownSets == {jd \in SUBSET JustKeys : Cardinality(jd) <= MaxJustDown}

AttackAnims == {"jiwatron-attack1", "jiwatron-attack2", "jiwatron-attack3"}
LoopAnims == {"jiwatron-idle", "jiwatron-walk"}
OneShotAnims == AttackAnims \cup {"jiwatron-hurt", "jiwatron-death"}
AnimKeys == LoopAnims \cup OneShotAnims

(***************************************************************************)
(* Sprite primitives used by Player.                                       *)
(***************************************************************************)
\* Sprite.play(key, ignoreIfPlaying = true)
play(s, key) ==
    IF s.animPlaying /\ s.animKey = key
    THEN s
    ELSE [s EXCEPT !.animKey = key, !.animPlaying = TRUE]

setVelocity(s, v) == [s EXCEPT !.vx = v, !.vy = v]

(***************************************************************************)
(* Player: movement and actions.                                           *)
(***************************************************************************)
moveLeft(s) == [s EXCEPT !.vx = -speed, !.flipX = TRUE, !.isMoving = TRUE]

\* mutant of moveRight: the sprite is not flipped back
moveRight_keepsFlip(s) == [s EXCEPT !.vx = speed, !.isMoving = TRUE]

moveRight(s) == [s EXCEPT !.vx = speed, !.flipX = FALSE, !.isMoving = TRUE]

moveUp(s) == [s EXCEPT !.vy = -speed, !.isMoving = TRUE]

moveDown(s) == [s EXCEPT !.vy = speed, !.isMoving = TRUE]

stopHorizontal(s) == [s EXCEPT !.vx = 0]

stopVertical(s) == [s EXCEPT !.vy = 0]

(***************************************************************************)
(* Player: animation helpers.                                              *)
(***************************************************************************)
playIdle(s) ==
    IF s.isAttacking \/ s.isHurt \/ s.isDead THEN s
    ELSE IF s.vx = 0 /\ s.vy = 0 THEN play(s, "jiwatron-idle")
    ELSE s

\* mutant of playWalk: the velocity test joins the axes with "and"
playWalk_bothAxes(s) ==
    IF s.isAttacking \/ s.isHurt \/ s.isDead THEN s
    ELSE IF s.vx # 0 /\ s.vy # 0 THEN play(s, "jiwatron-walk")
    ELSE s

playWalk(s) ==
    IF s.isAttacking \/ s.isHurt \/ s.isDead THEN s
    ELSE IF s.vx # 0 \/ s.vy # 0 THEN play(s, "jiwatron-walk")
    ELSE s

\* mutant of attack: the velocity is not zeroed
attack_keepsVelocity(s, animationKey) ==
    IF s.isAttacking \/ s.isHurt \/ s.isDead \/ s.attackCooldown > 0 THEN s
    ELSE play([s EXCEPT !.isAttacking = TRUE], animationKey)

attack(s, animationKey) ==
    IF s.isAttacking \/ s.isHurt \/ s.isDead \/ s.attackCooldown > 0 THEN s
    ELSE play(setVelocity([s EXCEPT !.isAttacking = TRUE], 0), animationKey)

\* mutant of playHurt: the velocity is not zeroed
playHurt_keepsVelocity(s) ==
    IF s.isHurt \/ s.isDead THEN s
    ELSE play([s EXCEPT !.isHurt = TRUE], "jiwatron-hurt")

playHurt(s) ==
    IF s.isHurt \/ s.isDead THEN s
    ELSE play(setVelocity([s EXCEPT !.isHurt = TRUE], 0), "jiwatron-hurt")

playDeath(s) ==
    IF s.isDead THEN s
    ELSE play(setVelocity([s EXCEPT !.isDead = TRUE], 0), "jiwatron-death")

\* mutant of resetCharacter: isAttacking is not cleared
resetCharacter_keepsAttacking(s) ==
    playIdle([s EXCEPT !.isDead = FALSE,
                       !.isHurt = FALSE,
                       !.attackCooldown = 0,
                       !.bodyEnable = TRUE,
                       !.x = CameraCenterX,
                       !.y = CameraCenterY])

resetCharacter(s) ==
    playIdle([s EXCEPT !.isDead = FALSE,
                       !.isHurt = FALSE,
                       !.isAttacking = FALSE,
                       !.attackCooldown = 0,
                       !.bodyEnable = TRUE,
                       !.x = CameraCenterX,
                       !.y = CameraCenterY])

(***************************************************************************)
(* Player.handleAnimationComplete, for the animation whose key is `key`.   *)
(***************************************************************************)
\* the handler with a death branch that leaves the body enabled
handleAnimationComplete_bodyStaysEnabled(s, key) ==
    IF key \in AttackAnims
    THEN LET s1 == [s EXCEPT !.isAttacking = FALSE]
         IN  IF ~s1.isMoving THEN playIdle(s1) ELSE s1
    ELSE IF key = "jiwatron-hurt"
    THEN playIdle([s EXCEPT !.isHurt = FALSE])
    ELSE IF key = "jiwatron-death"
    THEN setVelocity([s EXCEPT !.isDead = TRUE], 0)
    ELSE s

handleAnimationComplete(s, key) ==
    IF key \in AttackAnims
    THEN LET s1 == [s EXCEPT !.isAttacking = FALSE]
         IN  IF ~s1.isMoving THEN playIdle(s1) ELSE s1
    ELSE IF key = "jiwatron-hurt"
    THEN playIdle([s EXCEPT !.isHurt = FALSE])
    ELSE IF key = "jiwatron-death"
    THEN [setVelocity([s EXCEPT !.isDead = TRUE], 0) EXCEPT !.bodyEnable = FALSE]
    ELSE s

(***************************************************************************)
(* Player.update.  jd is the set of keys for which JustDown is true in     *)
(* this tick, hd the set of movement keys that are down.                   *)
(***************************************************************************)
\* the decrement without its test attackCooldown > 0
cooldownTick_unguarded(s) == [s EXCEPT !.attackCooldown = @ - 1]

cooldownTick(s) ==
    IF s.attackCooldown > 0 THEN [s EXCEPT !.attackCooldown = @ - 1] ELSE s

\* the attack keys tested in the order L, K, J
handleAttacks_highestFirst(s, jd) ==
    IF ~s.isAttacking /\ ~s.isHurt
    THEN IF "L" \in jd THEN attack(s, "jiwatron-attack3")
         ELSE IF "K" \in jd THEN attack(s, "jiwatron-attack2")
         ELSE IF "J" \in jd THEN attack(s, "jiwatron-attack1")
         ELSE s
    ELSE s

handleAttacks(s, jd) ==
    IF ~s.isAttacking /\ ~s.isHurt
    THEN IF "J" \in jd THEN attack(s, "jiwatron-attack1")
         ELSE IF "K" \in jd THEN attack(s, "jiwatron-attack2")
         ELSE IF "L" \in jd THEN attack(s, "jiwatron-attack3")
         ELSE s
    ELSE s

\* mutant of handleMovement: D is tested before A
handleMovement_rightFirst(s, hd) ==
    IF ~s.isAttacking /\ ~s.isHurt
    THEN LET h == IF "D" \in hd THEN moveRight(s)
                  ELSE IF "A" \in hd THEN moveLeft(s)
                  ELSE stopHorizontal(s)
             v == IF "W" \in hd THEN moveUp(h)
                  ELSE IF "S" \in hd THEN moveDown(h)
                  ELSE stopVertical(h)
             isMoving == hd \cap MoveKeys # {}
         IN  IF isMoving THEN playWalk(v) ELSE playIdle(v)
    ELSE s

handleMovement(s, hd) ==
    IF ~s.isAttacking /\ ~s.isHurt
    THEN LET h == IF "A" \in hd THEN moveLeft(s)
                  ELSE IF "D" \in hd THEN moveRight(s)
                  ELSE stopHorizontal(s)
             v == IF "W" \in hd THEN moveUp(h)
                  ELSE IF "S" \in hd THEN moveDown(h)
                  ELSE stopVertical(h)
             isMoving == hd \cap MoveKeys # {}
         IN  IF isMoving THEN playWalk(v) ELSE playIdle(v)
    ELSE s

\* mutant of update: the Dead branch does not return
update_deadFallsThrough(s, jd, hd) ==
    LET s0 == cooldownTick(s)
    IN  IF s0.isDead /\ "R" \in jd THEN resetCharacter(s0)
        ELSE IF "H" \in jd THEN playHurt(s0)
        ELSE IF "P" \in jd THEN playDeath(s0)
        ELSE handleMovement(handleAttacks(s0, jd), hd)

\* update without the return after playDeath
update_deathFallsThrough(s, jd, hd) ==
    LET s0 == cooldownTick(s)
    IN  IF s0.isDead
        THEN IF "R" \in jd THEN resetCharacter(s0) ELSE s0
        ELSE IF "H" \in jd THEN playHurt(s0)
        ELSE IF "P" \in jd
        THEN handleMovement(handleAttacks(playDeath(s0), jd), hd)
        ELSE handleMovement(handleAttacks(s0, jd), hd)

update(s, jd, hd) ==
    LET s0 == cooldownTick(s)
    IN  IF s0.isDead
        THEN IF "R" \in jd THEN resetCharacter(s0) ELSE s0
        ELSE IF "H" \in jd THEN playHurt(s0)
        ELSE IF "P" \in jd THEN playDeath(s0)
        ELSE handleMovement(handleAttacks(s0, jd), hd)

\* the branch of Player.update that a tick with inputs jd takes from s
updateBranch(s, jd) ==
    IF s.isDead THEN (IF "R" \in jd THEN "reset" ELSE "dead")
    ELSE IF "H" \in jd THEN "hurt"
    ELSE IF "P" \in jd THEN "death"
    ELSE IF s.isAttacking \/ s.isHurt THEN "locked"
    ELSE IF jd \cap {"J", "K", "L"} # {} THEN "attack"
    ELSE "move"

(***************************************************************************)
(* Arcade physics: one fixed step for the actor's body.                    *)
(***************************************************************************)
applyDrag(v) ==
    IF v - DragPerStep > 0 THEN v - DragPerStep
    ELSE IF v + DragPerStep < 0 THEN v + DragPerStep
    ELSE 0

sign(v) == IF v > 0 THEN 1 ELSE IF v < 0 THEN -1 ELSE 0

\* position and velocity of one axis after the step (collideWorldBounds, bounce 0)
stepAxis(p, v) ==
    LET v1 == applyDrag(v)
        p1 == p + sign(v1)
    IN  IF p1 < 0 THEN <<0, 0>>
        ELSE IF p1 > MaxCoord THEN <<MaxCoord, 0>>
        ELSE <<p1, v1>>

physicsStep(s) ==
    LET ax == stepAxis(s.x, s.vx)
        ay == stepAxis(s.y, s.vy)
    IN  [s EXCEPT !.x = ax[1], !.vx = ax[2], !.y = ay[1], !.vy = ay[2]]

(***************************************************************************)
(* MapScene.update: the depth sorting that follows Player.update.          *)
(***************************************************************************)
\* the actor's sprite position in pixels; position 0 is the camera's centre
pixelX(s) == GameWidth \div 2 + s.x * CellPx
pixelY(s) == GameHeight \div 2 + s.y * CellPx

\* the actor's position is a float: the sorter is handed it in units of
\* 1/SubPx pixel; the positions of the scenery are whole pixels
SubPx == 10

\* the split point compared with <= instead of <
aboveSplitPoint_inclusive(playerY) ==
    playerY * 100 <=
        (obeliskPhysicsY * 100 + obeliskHeight * obeliskSplitPercent) * SubPx

\* playerY < obeliskPhysicsY + obeliskHeight * 0.65, both sides multiplied
\* by 100 * SubPx
aboveSplitPoint(playerY) ==
    playerY * 100 <
        (obeliskPhysicsY * 100 + obeliskHeight * obeliskSplitPercent) * SubPx

\* the bounding box without its boundary
playerInBox_exclusive(sprite, playerX, playerY) ==
    /\ playerX > sprite.x * SubPx
    /\ playerX < (sprite.x + stoneSectorWidth) * SubPx
    /\ playerY > (sprite.y - stoneSectorHeight) * SubPx
    /\ playerY < sprite.y * SubPx

playerInBox(sprite, playerX, playerY) ==
    /\ playerX >= sprite.x * SubPx
    /\ playerX <= (sprite.x + stoneSectorWidth) * SubPx
    /\ playerY >= (sprite.y - stoneSectorHeight) * SubPx
    /\ playerY <= sprite.y * SubPx

\* the obelisk branch leaving the alpha alone when the obelisk is behind
sortObelisk_keepsAlpha(sprite, playerY) ==
    IF aboveSplitPoint(playerY)
    THEN [sprite EXCEPT !.depth = FrontDepth, !.alpha = ObeliskFrontAlpha]
    ELSE [sprite EXCEPT !.depth = BehindDepth]

\* the branch of the sprites whose texture key starts with obelisk_tower
sortObelisk(sprite, playerY) ==
    IF aboveSplitPoint(playerY)
    THEN [sprite EXCEPT !.depth = FrontDepth, !.alpha = ObeliskFrontAlpha]
    ELSE [sprite EXCEPT !.depth = BehindDepth, !.alpha = OpaqueAlpha]

\* the branch of the sprites whose texture key starts with stone_sector
sortStoneSector(sprite, playerX, playerY) ==
    IF playerInBox(sprite, playerX, playerY)
    THEN [sprite EXCEPT !.depth = FrontDepth, !.alpha = StoneSectorInsideAlpha]
    ELSE [sprite EXCEPT !.depth = FrontDepth, !.alpha = OpaqueAlpha]

\* the depth line rounded up instead of down
sortGeneric_roundsUp(sprite) ==
    [sprite EXCEPT !.depth = (sprite.y + DepthLinePx - 1) \div DepthLinePx]

\* the branch of every other sprite: Math.floor(sprite.y / 32)
sortGeneric(sprite) ==
    [sprite EXCEPT !.depth = sprite.y \div DepthLinePx]

\* the body of the forEach over depthSortedObjects, for one sprite
sortSprite(sprite, playerX, playerY) ==
    IF sprite.texture = "obelisk_tower" THEN sortObelisk(sprite, playerY)
    ELSE IF sprite.texture = "stone_sector"
    THEN sortStoneSector(sprite, playerX, playerY)
    ELSE sortGeneric(sprite)

\* this.player ? this.player.x : 0
actorCoord(hasPlayer, v) == IF hasPlayer THEN v ELSE 0

\* the forEach over depthSortedObjects, with the actor, if there is one, at
\* (playerX, playerY)
sortSprites(objs, hasPlayer, playerX, playerY) ==
    [i \in DOMAIN objs |->
        sortSprite(objs[i], actorCoord(hasPlayer, playerX),
                            actorCoord(hasPlayer, playerY))]

sortScenery(objs, s) ==
    sortSprites(objs, TRUE, pixelX(s) * SubPx, pixelY(s) * SubPx)

(***************************************************************************)
(* MapScene.createCollisionObjects: the collision cells of the polygons of *)
(* the object layer "collision".                                           *)
(***************************************************************************)
rectSize == 16

Range(f) == {f[i] : i \in DOMAIN f}

pt(x, y) == [x |-> x, y |-> y]

\* a TiledObject: its origin, the relative points of its polygon (hasPolygon
\* is FALSE for an object without one) and its custom property collides
\* ("true", "false", or "none" when the object has no such property)
TiledObject(x, y, hasPolygon, polygon, collides) ==
    [x |-> x, y |-> y, hasPolygon |-> hasPolygon, polygon |-> polygon,
     collides |-> collides]

\* polygons as an author can draw them, in points relative to the origin
Square16 == <<pt(0, 0), pt(16, 0), pt(16, 16), pt(0, 16)>>
Square32 == <<pt(0, 0), pt(32, 0), pt(32, 32), pt(0, 32)>>
CentredSquare32 == <<pt(-16, -16), pt(16, -16), pt(16, 16), pt(-16, 16)>>
Rect48x16 == <<pt(0, 0), pt(48, 0), pt(48, 16), pt(0, 16)>>
Triangle40 == <<pt(0, 0), pt(40, 0), pt(0, 40)>>
LShape == <<pt(0, 0), pt(32, 0), pt(32, 16), pt(16, 16), pt(16, 32), pt(0, 32)>>
Collinear3 == <<pt(0, 0), pt(32, 32), pt(16, 16)>>
TwoPoints == <<pt(0, 0), pt(32, 32)>>
OnePoint == <<pt(0, 0)>>
NoPoints == << >>

Shapes == {Square16, Square32, CentredSquare32, Rect48x16, Triangle40, LShape,
           Collinear3, TwoPoints, OnePoint, NoPoints}

\* origins on the tile grid, off the tile grid, and on the level's top-left
Origins == {pt(16, 16), pt(8, 24), pt(0, 0)}

Objects ==
    {TiledObject(o.x, o.y, TRUE, shape, "true") : o \in Origins, shape \in Shapes}
    \cup {TiledObject(16, 16, TRUE, Square32, "false"),
          TiledObject(16, 16, TRUE, Square32, "none"),
          TiledObject(16, 16, FALSE, << >>, "true")}

Layers == UNION {[1..n -> Objects] : n \in 0..MaxObjects}

\* the scene as its constructor leaves it, with the level's object layer
bootScene(layer) ==
    [phase |-> "boot", error |-> FALSE, hasPlayer |-> FALSE, layer |-> layer,
     hasObjectLayer |-> TRUE, tileCollider |-> FALSE,
     objectLayer1 |-> DefaultObjectLayer1, objectLayer2 |-> DefaultObjectLayer2,
     animatedObjects |-> << >>,
     collisionObjects |-> << >>, debugGraphics |-> << >>,
     debugCollisions |-> FALSE, collisionLayerVisible |-> FALSE,
     debugShowBody |-> FALSE]

\* the scene of a level whose map has no object layer "collision":
\* getObjectLayer returns null
bootSceneWithoutObjectLayer ==
    [bootScene(<< >>) EXCEPT !.hasObjectLayer = FALSE]

\* the loop body of isPointInPolygon for the edge from polygon[j] to
\* polygon[i]; the division by polygon[j].y - polygon[i].y, which the first
\* condition makes nonzero, is cleared by multiplying both sides with it
edgeToggles(x, y, pi, pj) ==
    /\ (pi.y > y) # (pj.y > y)
    /\ LET dy == pj.y - pi.y
           lhs == (x - pi.x) * dy
           rhs == (pj.x - pi.x) * (y - pi.y)
       IN  IF dy > 0 THEN lhs < rhs ELSE lhs > rhs

RECURSIVE isPointInPolygonFrom(_, _, _, _, _, _)
isPointInPolygonFrom(x, y, polygon, i, j, inside) ==
    IF i > Len(polygon) THEN inside
    ELSE isPointInPolygonFrom(x, y, polygon, i + 1, i,
             IF edgeToggles(x, y, polygon[i], polygon[j]) THEN ~inside ELSE inside)

isPointInPolygon(x, y, polygon) ==
    isPointInPolygonFrom(x, y, polygon, 1, Len(polygon), FALSE)

minOf(S) == CHOOSE m \in S : \A n \in S : m <= n
maxOf(S) == CHOOSE m \in S : \A n \in S : m >= n

\* the values v takes in "for (v = min; v < max; v += rectSize)"
walkValues(min, max) ==
    IF max > min
    THEN [n \in 1..(((max - min - 1) \div rectSize) + 1) |-> min + (n - 1) * rectSize]
    ELSE << >>

\* the rectangles one polygon yields, in the order of the two nested loops;
\* the field polygon records the index of the polygon they come from
collisionRectsOf(points, index) ==
    IF points = << >> THEN << >>
    ELSE
    LET xs == walkValues(minOf({p.x : p \in Range(points)}),
                         maxOf({p.x : p \in Range(points)}))
        ys == walkValues(minOf({p.y : p \in Range(points)}),
                         maxOf({p.y : p \in Range(points)}))
        centres == [n \in 1..(Len(xs) * Len(ys)) |->
                      pt(xs[((n - 1) \div Len(ys)) + 1] + (rectSize \div 2),
                         ys[((n - 1) % Len(ys)) + 1] + (rectSize \div 2))]
        inPolygon(c) == isPointInPolygon(c.x, c.y, points)
        inside == SelectSeq(centres, inPolygon)
    IN  [n \in DOMAIN inside |->
            [x |-> inside[n].x, y |-> inside[n].y, width |-> rectSize,
             height |-> rectSize, visible |-> FALSE, polygon |-> index]]

debugGraphic(kind) == [kind |-> kind, visible |-> FALSE]

\* a filter that takes every polygon, whatever its properties
collidablePolygon_anyPolygon(obj) == obj.hasPolygon

\* the collidable polygons: the filter of createCollisionObjects
collidablePolygon(obj) == obj.hasPolygon /\ obj.collides = "true"

\* the absolute points of an object's polygon: origin + relative point
pointsOf(obj) ==
    [i \in DOMAIN obj.polygon |->
        pt(obj.x + obj.polygon[i].x, obj.y + obj.polygon[i].y)]

\* the callback of polygons.forEach for one polygon; Graphics.strokePoints
\* reads points[0].x, so a polygon without points raises a TypeError
buildPolygon(sc, obj, index) ==
    IF obj.x = 0 \/ obj.y = 0 \/ ~obj.hasPolygon THEN sc
    ELSE
    LET points == pointsOf(obj)
        walked == [sc EXCEPT
                     !.collisionObjects = @ \o collisionRectsOf(points, index),
                     !.debugGraphics = @ \o <<debugGraphic("polygon")>>]
    IN  IF points = << >> THEN [walked EXCEPT !.error = TRUE]
        ELSE [walked EXCEPT
                !.debugGraphics = @ \o <<debugGraphic("outline"), debugGraphic("fill"),
                                         debugGraphic("centre"), debugGraphic("label")>>]

RECURSIVE buildPolygonsFrom(_, _, _)
buildPolygonsFrom(sc, polygons, index) ==
    IF index > Len(polygons) \/ sc.error THEN sc
    ELSE buildPolygonsFrom(buildPolygon(sc, polygons[index], index), polygons,
                           index + 1)

\* createCollisionObjects reading the objects of a layer that is missing
createCollisionObjects_readsMissingLayer(sc) ==
    IF ~sc.hasObjectLayer THEN [sc EXCEPT !.error = TRUE]
    ELSE buildPolygonsFrom(sc, SelectSeq(sc.layer, collidablePolygon), 1)

\* without the object layer the builder logs and returns
createCollisionObjects(sc) ==
    IF ~sc.hasObjectLayer THEN sc
    ELSE buildPolygonsFrom(sc, SelectSeq(sc.layer, collidablePolygon), 1)

\* MapScene.create: createMap builds the collision cells; an error raised
\* there is caught at the end of create, and the steps after createMap
\* (scenery, actor, camera, controls) are then not run; createAnimatedObjects
\* fills the group animatedObjects (the group depthSortedObjects is the
\* variable of that name), createPlayer makes the actor and its collider
\* with the tile layer "collision"
create(sc) ==
    LET built == createCollisionObjects(sc)
    IN  IF built.error THEN [built EXCEPT !.phase = "created"]
        ELSE [built EXCEPT !.phase = "created", !.hasPlayer = TRUE,
                           !.tileCollider = TRUE,
                           !.animatedObjects = fixedDepthSpritesOf(sc.objectLayer1)]

\* the level of the running scene
DefaultLayer == <<TiledObject(16, 16, TRUE, Square16, "true")>>

(***************************************************************************)
(* The flags of the actor, as the abstract state of the state machine.     *)
(***************************************************************************)
flagsOf(s) == [isAttacking |-> s.isAttacking, isHurt |-> s.isHurt,
               isDead |-> s.isDead, bodyEnable |-> s.bodyEnable,
               moving |-> (s.vx # 0 \/ s.vy # 0)]

\* history of the last step: the operation, its just-pressed keys (kept in
\* full for the branches of update that act on them) and the flags before it
lastOf(op, jd, s) ==
    [op |-> op,
     jd |-> (IF op \in {"reset", "hurt", "death", "attack"} THEN jd ELSE {}),
     atk |-> (jd \cap {"J", "K", "L"} # {}),
     pre |-> flagsOf(s)]

(***************************************************************************)
(* State machine.                                                          *)
(***************************************************************************)
\* new Player(scene, centerX, centerY)
newPlayer ==
    playIdle([isMoving |-> FALSE, isAttacking |-> FALSE, isHurt |-> FALSE,
              isDead |-> FALSE, attackCooldown |-> 0,
              vx |-> 0, vy |-> 0, flipX |-> FALSE, bodyEnable |-> TRUE,
              x |-> SpawnX, y |-> SpawnY,
              animKey |-> "none", animPlaying |-> FALSE])

Init ==
    /\ player = newPlayer
    /\ held = {}
    /\ steps = 0
    /\ last = lastOf("create", {}, newPlayer)
    /\ playerDepth = PlayerCreateDepth
    /\ depthSortedObjects = SceneryObjects
    /\ scene = create(bootScene(DefaultLayer))

\* a keyboard event on a movement key: Key.isDown changes
KeyEvent(k) ==
    /\ held' = (IF k \in held THEN held \ {k} ELSE held \cup {k})
    /\ last' = lastOf("key", {}, player)
    /\ UNCHANGED <<player, steps, playerDepth, depthSortedObjects, scene>>

\* one tick with the scenery sorted before the actor is updated
Tick_sortsBeforeUpdate(jd) ==
    /\ player' = update(player, jd, held)
    /\ playerDepth' = PlayerDepth
    /\ depthSortedObjects' = sortScenery(depthSortedObjects, player)
    /\ steps' = 0
    /\ last' = lastOf(updateBranch(player, jd), jd, player)
    /\ UNCHANGED <<held, scene>>

\* one tick, MapScene.update: Player.update, the actor's depth, then the
\* depth sorting of the scenery from the actor's position
Tick(jd) ==
    /\ player' = update(player, jd, held)
    /\ playerDepth' = PlayerDepth
    /\ depthSortedObjects' = sortScenery(depthSortedObjects, player')
    /\ steps' = 0
    /\ last' = lastOf(updateBranch(player, jd), jd, player)
    /\ UNCHANGED <<held, scene>>

\* the playing one-shot animation reaches its last frame: ANIMATION_COMPLETE
AnimationComplete ==
    /\ player.animPlaying
    /\ player.animKey \in OneShotAnims
    /\ player' = handleAnimationComplete([player EXCEPT !.animPlaying = FALSE],
                                         player.animKey)
    /\ last' = lastOf(player.animKey, {}, player)
    /\ UNCHANGED <<held, steps, playerDepth, depthSortedObjects, scene>>

\* the physics world steps the actor's body
PhysicsStep ==
    /\ player.bodyEnable
    /\ steps < MaxPhysicsSteps
    /\ player' = physicsStep(player)
    /\ steps' = steps + 1
    /\ last' = lastOf("physics", {}, player)
    /\ UNCHANGED <<held, playerDepth, depthSortedObjects, scene>>

Next ==
    \/ \E k \in MoveKeys : KeyEvent(k)
    \/ \E jd \in JustDownSets : Tick(jd)
    \/ AnimationComplete
    \/ PhysicsStep

Spec == Init /\ [][Next]_vars

(***************************************************************************)
(* The debug keys of the scene (setupControls).                            *)
(***************************************************************************)
DebugKeys == {"C", "R", "P", "I", "B"}

\* collisionObjects.forEach(obj => obj.setVisible(v))
showCollisionObjects(sc, v) ==
    [sc EXCEPT !.collisionObjects =
                  [n \in DOMAIN @ |-> [@[n] EXCEPT !.visible = v]]]

\* debugGraphics.forEach(graphics => graphics.setVisible(v))
showDebugGraphics(sc, v) ==
    [sc EXCEPT !.debugGraphics =
                  [n \in DOMAIN @ |-> [@[n] EXCEPT !.visible = v]]]

\* the handler of C
toggleCollisions(sc) ==
    showCollisionObjects([sc EXCEPT !.debugCollisions = ~@], ~sc.debugCollisions)

\* the handler of R with the cells built anew on every press
toggleCollisionRectangles_rebuilds(sc) ==
    LET shown == [sc EXCEPT !.debugCollisions = ~@]
    IN  showDebugGraphics(
            showCollisionObjects(createCollisionObjects(shown), shown.debugCollisions),
            shown.debugCollisions)

toggleCollisionRectangles(sc) ==
    LET shown == [sc EXCEPT !.debugCollisions = ~@]
    IN  showDebugGraphics(showCollisionObjects(shown, shown.debugCollisions),
                          shown.debugCollisions)

togglePhysicsDebug(sc) ==
    LET shown == toggleCollisionRectangles(sc)
    IN  [shown EXCEPT !.collisionLayerVisible = shown.debugCollisions,
                      !.debugShowBody = IF sc.hasPlayer THEN TRUE ELSE @]

\* showCollisionInfo (I) and showPlayerCollisionBox (B) only write to the log
keyDown(sc, k) ==
    CASE k = "C" -> toggleCollisions(sc)
      [] k = "R" -> toggleCollisionRectangles(sc)
      [] k = "P" -> togglePhysicsDebug(sc)
      [] OTHER -> sc

\* a debug key goes down
DebugKey(k) ==
    /\ scene' = keyDown(scene, k)
    /\ UNCHANGED <<player, held, steps, last, playerDepth, depthSortedObjects>>

\* the ticks in which at most one of the actor's trigger keys is just-pressed
SingleJustDown == {{}} \cup {{k} : k \in JustKeys}

\* the running scene with its debug keys: key events, ticks and animation
\* completions. The physics step is not among them: it moves the actor's
\* body only, the cells being static bodies (physics.add.existing(rect, true))
SceneNext ==
    \/ \E k \in DebugKeys : DebugKey(k)
    \/ \E k \in MoveKeys : KeyEvent(k)
    \/ \E jd \in SingleJustDown : Tick(jd)
    \/ AnimationComplete

SceneSpec == Init /\ [][SceneNext]_vars

(***************************************************************************)
(* The running scene frame by frame. The keyboard plugin handles a key     *)
(* that went down before the scene's update of the same frame: the scene's *)
(* 'down' handler of the key runs, and JustDown of the key is true in the  *)
(* Player.update that follows. R and P are keys of the scene and of the    *)
(* Player: addKey gives both the same Key object.                          *)
(***************************************************************************)
PressKeys == DebugKeys \cup JustKeys

\* a frame in which the key k went down
PressKey(k) ==
    /\ scene' = (IF k \in DebugKeys THEN keyDown(scene, k) ELSE scene)
    /\ player' = update(player, {k} \cap JustKeys, held)
    /\ playerDepth' = PlayerDepth
    /\ depthSortedObjects' = sortScenery(depthSortedObjects, player')
    /\ steps' = 0
    /\ last' = lastOf(updateBranch(player, {k} \cap JustKeys),
                      {k} \cap JustKeys, player)
    /\ UNCHANGED held

ControlsNext ==
    \/ \E k \in PressKeys : PressKey(k)
    \/ \E k \in MoveKeys : KeyEvent(k)
    \/ Tick({})
    \/ AnimationComplete

ControlsSpec == Init /\ [][ControlsNext]_vars

(***************************************************************************)
(* The running scene with the whole keyboard: the Player makes Key objects *)
(* for W, A, S, D, J, K, L, H, P, R only, so an event on an arrow key      *)
(* changes the keyboard and no Key that Player.update reads.               *)
(***************************************************************************)
ArrowKeys == {"LEFT", "RIGHT", "UP", "DOWN"}

KeyboardNext ==
    \/ \E k \in MoveKeys \cup ArrowKeys : KeyEvent(k)
    \/ \E jd \in SingleJustDown : Tick(jd)
    \/ AnimationComplete

KeyboardSpec == Init /\ [][KeyboardNext]_vars

(***************************************************************************)
(* The running scene with its scheduling: the game loop calls update every *)
(* frame, and the animation of a playing one-shot animation advances every *)
(* frame until its completion event fires.                                 *)
(***************************************************************************)
LiveNext ==
    \/ \E k \in MoveKeys : KeyEvent(k)
    \/ \E jd \in SingleJustDown : Tick(jd)
    \/ AnimationComplete

LiveSpec ==
    /\ Init
    /\ [][LiveNext]_vars
    /\ WF_vars(\E jd \in SingleJustDown : Tick(jd))
    /\ WF_vars(AnimationComplete)

(***************************************************************************)
(* Scene creation, for every level of the catalogue.                       *)
(***************************************************************************)
\* the scene after its constructor; player holds the fields the actor gets
\* once createPlayer has run, and scene.hasPlayer tells whether it has
BuildInit ==
    /\ scene \in {bootScene(layer) : layer \in Layers}
                \cup {bootSceneWithoutObjectLayer}
    /\ player = newPlayer
    /\ held = {}
    /\ steps = 0
    /\ last = lastOf("boot", {}, newPlayer)
    /\ playerDepth = PlayerCreateDepth
    /\ depthSortedObjects = << >>

\* MapScene.create
Create ==
    /\ scene.phase = "boot"
    /\ scene' = create(scene)
    /\ depthSortedObjects' =
          (IF scene'.error THEN << >> ELSE spritesOf(scene.objectLayer2))
    /\ last' = lastOf("create", {}, player)
    /\ UNCHANGED <<player, held, steps, playerDepth>>

BuildNext == Create

BuildSpec == BuildInit /\ [][BuildNext]_vars

(***************************************************************************)
(* Scene creation, for every pair of animation object layers.              *)
(***************************************************************************)
\* tile objects of known gids, of the gids 11222 and 11214 that lie between
\* and below the known ranges, and without gid
TileObjects ==
    {TileObject(11185, 400, 750, 128, 256),
     TileObject(11224, 300, 600, 259, 500),
     TileObject(11221, 100, 64, 32, 48),
     TileObject(11169, 200, 200, 64, 64),
     TileObject(11222, 48, 48, 32, 32),
     TileObject(11214, 80, 48, 32, 32),
     TileObject(0, 16, 48, 32, 32)}

ObjectLayers == UNION {[1..n -> TileObjects] : n \in 0..MaxSprites}

SceneryInit ==
    /\ scene \in {[bootScene(DefaultLayer) EXCEPT !.objectLayer1 = layer1,
                                                    !.objectLayer2 = layer2] :
                     layer1 \in ObjectLayers, layer2 \in ObjectLayers}
    /\ player = newPlayer
    /\ held = {}
    /\ steps = 0
    /\ last = lastOf("boot", {}, newPlayer)
    /\ playerDepth = PlayerCreateDepth
    /\ depthSortedObjects = << >>

SceneryNext == Create

ScenerySpec == SceneryInit /\ [][SceneryNext]_vars

(***************************************************************************)
(* The depth sorting of MapScene.update as a function of its inputs: the   *)
(* registry of depth-sorted sprites, whether the scene has an actor, and   *)
(* the actor's position.                                                   *)
(***************************************************************************)
SpriteCatalogue ==
    {Sprite("obelisk_tower", 400, 750, 128, 256),
     Sprite("obelisk_tower", 100, 300, 64, 128),
     Sprite("stone_sector", 300, 600, 259, 500),
     Sprite("stone_sector", 0, 500, 259, 500),
     Sprite("plant_tree", 100, 750, 32, 48),
     Sprite("plant_tree", 100, 64, 32, 48),
     Sprite("plant_tree", 200, 63, 32, 48)}

Registries == UNION {[1..n -> SpriteCatalogue] : n \in 1..MaxSprites}

\* positions of the actor in units of 1/SubPx pixel: around and on the edges
\* of the box of the stone sector at (300, 600), and around and on the
\* split point 666.4
ActorXs == {2990, 3000, 4000, 5590, 5600}
ActorYs == {990, 1000, 3000, 6000, 6010, 6650, 6663, 6664, 6665, 7500}

sortOf(hasPlayer, x, y) == [op |-> "sort", hasPlayer |-> hasPlayer, x |-> x, y |-> y]

SorterInit ==
    /\ player = newPlayer
    /\ held = {}
    /\ steps = 0
    /\ last = lastOf("create", {}, newPlayer)
    /\ playerDepth = PlayerCreateDepth
    /\ depthSortedObjects \in Registries
    /\ \E hasPlayer \in BOOLEAN :
          scene = [create(bootScene(DefaultLayer)) EXCEPT
                      !.hasPlayer = hasPlayer, !.tileCollider = hasPlayer]

\* MapScene.update with no key held or pressed and the actor at (ax, ay)
SortWithActor(ax, ay) ==
    /\ scene.hasPlayer
    /\ player' = update(player, {}, {})
    /\ playerDepth' = PlayerDepth
    /\ depthSortedObjects' = sortSprites(depthSortedObjects, TRUE, ax, ay)
    /\ last' = sortOf(TRUE, ax, ay)
    /\ UNCHANGED <<held, steps, scene>>

\* MapScene.update in a scene without actor: this.player is undefined
SortWithoutActor ==
    /\ ~scene.hasPlayer
    /\ depthSortedObjects' = sortSprites(depthSortedObjects, FALSE, 0, 0)
    /\ last' = sortOf(FALSE, 0, 0)
    /\ UNCHANGED <<player, held, steps, playerDepth, scene>>

SorterNext ==
    \/ \E ax \in ActorXs, ay \in ActorYs : SortWithActor(ax, ay)
    \/ SortWithoutActor

SorterSpec == SorterInit /\ [][SorterNext]_vars

TypeOK ==
    /\ player.isMoving \in BOOLEAN
    /\ player.isAttacking \in BOOLEAN
    /\ player.isHurt \in BOOLEAN
    /\ player.isDead \in BOOLEAN
    /\ player.attackCooldown \in Nat
    /\ player.vx \in -speed..speed
    /\ player.vy \in -speed..speed
    /\ player.x \in 0..MaxCoord
    /\ player.y \in 0..MaxCoord
    /\ player.animKey \in AnimKeys
    /\ held \subseteq MoveKeys
    /\ steps \in 0..MaxPhysicsSteps
    /\ playerDepth \in {PlayerCreateDepth, PlayerDepth}
    /\ DOMAIN depthSortedObjects = DOMAIN SceneryObjects
    /\ scene.phase = "created" /\ scene.hasPlayer

(***************************************************************************)
(* The states of the actor's state machine, read off the flags.            *)
(***************************************************************************)
NoFlags(s) == ~s.isAttacking /\ ~s.isHurt /\ ~s.isDead

Still(s) == s.vx = 0 /\ s.vy = 0

IsIdle(s) == NoFlags(s) /\ Still(s)

IsWalking(s) == NoFlags(s) /\ ~Still(s)

Playing(s, key) == s.animKey = key /\ s.animPlaying

AttackKeys == {"J", "K", "L"}

\* the animation started by the attack keys of jd (attack-1 over -2 over -3)
attackAnimOf(jd) ==
    IF "J" \in jd THEN "jiwatron-attack1"
    ELSE IF "K" \in jd THEN "jiwatron-attack2"
    ELSE "jiwatron-attack3"

\* the completion event of the animation `key` is handled in this step
Completes(key) == AnimationComplete /\ player.animKey = key

\* this step is a tick (Player.update) that takes the branch `branch`;
\* last'.jd is then the set of its just-pressed keys where the branch reads them
Ticks(branch) == last'.op = branch

(***************************************************************************)
(* Claims.                                                                 *)
(***************************************************************************)

\* C1: whenever the Hurt animation-completion event fires while the actor is
\* not Dead, none of Attacking, Hurt, Dead is set afterwards and the actor is
\* Idle, whatever state the Hurt was entered from.
C1_HurtCompleteIdle ==
    [][(Completes("jiwatron-hurt") /\ ~player.isDead) => IsIdle(player')]_vars

\* C2: in every reachable state at most one of the flags isAttacking, isHurt,
\* isDead is set.
C2_AtMostOneFlag ==
    /\ ~(player.isAttacking /\ player.isHurt)
    /\ ~(player.isAttacking /\ player.isDead)
    /\ ~(player.isHurt /\ player.isDead)

\* C3: in every reachable state in which the actor is Dead its velocity is
\* (0,0) and its physics body is not enabled.
C3_DeadStillNoCollision ==
    player.isDead => (Still(player) /\ ~player.bodyEnable)

\* C4: a tick with a Death trigger just-pressed and the actor not Dead ends
\* with the actor Dead and velocity (0,0), whatever other triggers are present.
C4_DeathHasPriority ==
    [][((Ticks("hurt") \/ Ticks("death")) /\ "P" \in last'.jd /\ ~player.isDead)
          => (player'.isDead /\ Still(player'))]_vars

\* C5: while the actor is Dead, every step other than a tick with the Reset
\* command leaves it Dead and leaves its flags, velocity, position and facing
\* unchanged.
C5_DeadUntilReset ==
    [][(player.isDead /\ ~Ticks("reset"))
          => /\ player'.isDead
             /\ player'.isHurt = player.isHurt
             /\ player'.isAttacking = player.isAttacking
             /\ player'.isMoving = player.isMoving
             /\ player'.vx = player.vx /\ player'.vy = player.vy
             /\ player'.x = player.x /\ player'.y = player.y
             /\ player'.flipX = player.flipX]_vars

\* C5 witness: a tick processed while Dead, with attack keys just-pressed and
\* movement keys held, after the death animation ran to completion.
C5_Witness ==
    /\ last.op = "dead" /\ last.atk /\ held # {}
    /\ last.pre.isDead /\ player.isDead /\ ~player.bodyEnable

\* C6: a Reset command in a tick in which the actor is Dead clears Dead, Hurt
\* and Attacking, sets attackCooldown to 0, enables the physics body and leaves
\* the actor in Idle (idle animation) with velocity (0,0).
C6_ResetRestoresIdle ==
    [][(Ticks("reset") /\ player.isDead)
          => /\ IsIdle(player')
             /\ player'.attackCooldown = 0
             /\ player'.bodyEnable
             /\ Playing(player', "jiwatron-idle")]_vars

\* C6 witness: the state after a Reset of an actor that died during an attack
\* and whose death animation had completed.
C6_Witness ==
    /\ last.op = "reset" /\ "R" \in last.jd
    /\ last.pre.isDead /\ last.pre.isAttacking /\ ~last.pre.bodyEnable
    /\ IsIdle(player) /\ player.bodyEnable

\* C7: a Hurt trigger (no Death trigger) in a tick in which the actor is Idle,
\* Walking or Attacking leaves it Hurt with velocity (0,0) and no longer
\* Attacking.
C7_HurtInterruptsAttack ==
    [][(Ticks("hurt") /\ "P" \notin last'.jd /\ ~player.isDead /\ ~player.isHurt)
          => (player'.isHurt /\ Still(player') /\ ~player'.isAttacking)]_vars

\* C8 (as stated): a tick with an attack trigger makes the actor Attacking with
\* a pressed variant and velocity (0,0) when it is Idle or Walking with
\* attackCooldown <= 0, and changes nothing in every other state.
C8_AttackIffIdleOrWalking ==
    [][((\E b \in {"reset", "dead", "hurt", "death", "locked", "attack"} : Ticks(b))
            /\ last'.atk)
          => IF NoFlags(player) /\ player.attackCooldown <= 0
             THEN /\ player'.isAttacking /\ ~player'.isHurt /\ ~player'.isDead
                  /\ Still(player')
                  /\ \E k \in last'.jd \cap AttackKeys :
                         Playing(player', attackAnimOf({k}))
             ELSE player' = player]_vars

\* C8 (amended): in a tick with an attack trigger in which no Hurt or Death
\* trigger is just-pressed and no Reset command reaches a Dead actor, the actor
\* becomes Attacking (lowest-numbered pressed variant, velocity (0,0), held
\* movement keys not applied) if and only if it is Idle or Walking with
\* attackCooldown <= 0; in every other state nothing changes.
C8_AttackIffIdleOrWalkingNoOtherTrigger ==
    [][((Ticks("dead") \/ Ticks("locked") \/ Ticks("attack")) /\ last'.atk)
          => IF NoFlags(player) /\ player.attackCooldown <= 0
             THEN /\ player'.isAttacking /\ ~player'.isHurt /\ ~player'.isDead
                  /\ Still(player')
                  /\ Playing(player', attackAnimOf(last'.jd))
                  /\ player'.x = player.x /\ player'.y = player.y
                  /\ player'.flipX = player.flipX
             ELSE player' = player]_vars

\* C8 witness: an attack accepted from Walking with movement keys held, the
\* actor now Attacking and standing still.
C8_Witness ==
    /\ last.op = "attack" /\ last.atk /\ last.pre.moving /\ held # {}
    /\ player.isAttacking /\ Still(player)
    /\ player.animKey \in AttackAnims

\* C9: when the Attacking animation-completion event fires the actor leaves
\* Attacking and is Idle (idle animation) if no movement key is held, Walking
\* if one is held.
C9_AttackCompleteIdleOrWalking ==
    [][(\E key \in AttackAnims : Completes(key))
          => /\ ~player'.isAttacking
             /\ (held = {} => (IsIdle(player') /\ Playing(player', "jiwatron-idle")))
             /\ (held # {} => IsWalking(player'))]_vars

\* C10: a tick with no Hurt, Death or attack trigger takes an Idle actor with
\* a movement key held to Walking (non-zero velocity, walk animation), and a
\* Walking actor with no movement key held to Idle with velocity (0,0).
C10_IdleWalkSameTick ==
    [][Ticks("move")
          => /\ (IsIdle(player) /\ held # {})
                 => (IsWalking(player') /\ Playing(player', "jiwatron-walk"))
             /\ (IsWalking(player) /\ held = {})
                 => (IsIdle(player') /\ Playing(player', "jiwatron-idle"))]_vars

\* C10 witness: a Walking actor that a tick without movement input has just
\* returned to Idle.
C10_Witness ==
    /\ last.op = "move" /\ last.pre.moving /\ held = {}
    /\ ~last.pre.isAttacking /\ ~last.pre.isHurt /\ ~last.pre.isDead
    /\ IsIdle(player) /\ Playing(player, "jiwatron-idle")

\* the velocity that the held movement keys ask for, per axis
horizontalOf(hd) ==
    IF "A" \in hd THEN -speed ELSE IF "D" \in hd THEN speed ELSE 0

verticalOf(hd) ==
    IF "W" \in hd THEN -speed ELSE IF "S" \in hd THEN speed ELSE 0

\* C11 (as stated): after every tick that finds the actor Idle or Walking the
\* horizontal velocity is given by the horizontal keys held alone and the
\* vertical velocity by the vertical keys held alone.
C11_AxesFollowInput ==
    [][((\E b \in {"hurt", "death", "attack", "move"} : Ticks(b)) /\ NoFlags(player))
          => (player'.vx = horizontalOf(held) /\ player'.vy = verticalOf(held))]_vars

\* C11 (amended): after every tick that finds the actor Idle or Walking and in
\* which no Hurt, Death or attack trigger is just-pressed, the horizontal
\* velocity is -150 if move-left is held, else +150 if move-right is held, else
\* 0, and the vertical velocity -150 if move-up is held, else +150 if move-down
\* is held, else 0: each axis depends on its own keys only.
C11_AxesFollowInputNoTrigger ==
    [][(Ticks("move") /\ NoFlags(player))
          => (player'.vx = horizontalOf(held) /\ player'.vy = verticalOf(held))]_vars

\* C11 witness: a tick of a moving actor with both horizontal keys held and no
\* vertical key: it moves left and the vertical axis is zero.
C11_Witness ==
    /\ last.op = "move" /\ last.pre.moving
    /\ {"A", "D"} \subseteq held /\ held \cap {"W", "S"} = {}
    /\ player.vx = -speed /\ player.vy = 0

\* C12: facing is Left after a tick that applies move-left and Right after a
\* tick that applies move-right; every other step leaves facing unchanged.
C12_FacingFollowsHorizontal ==
    [][IF Ticks("move") /\ "A" \in held THEN player'.flipX
       ELSE IF Ticks("move") /\ "D" \in held THEN ~player'.flipX
       ELSE player'.flipX = player.flipX]_vars

\* C12 witness: the actor faces Left right after a Reset.
C12_Witness ==
    /\ last.op = "reset" /\ last.pre.isDead
    /\ player.flipX /\ NoFlags(player)

\* C13: in every reachable state in which the actor is Attacking, Hurt or
\* Dead its velocity is (0,0), whatever movement keys are held.
C13_LockedStatesStill ==
    (player.isAttacking \/ player.isHurt \/ player.isDead) => Still(player)

\* C13 witness: a tick processed while Attacking or Hurt with a movement key
\* held.
C13_Witness ==
    /\ last.op = "locked" /\ held # {}
    /\ (player.isAttacking \/ player.isHurt) /\ Still(player)

(***************************************************************************)
(* The order of the steps of one tick.                                     *)
(***************************************************************************)
TickOps == {"reset", "dead", "hurt", "death", "locked", "attack", "move"}

Obelisk == depthSortedObjects[1]
StoneSector == depthSortedObjects[2]
PlantTree == depthSortedObjects[3]

\* C14: at the end of every tick (the state a tick leaves, whatever branch
\* Player.update took, a reset to the camera's centre included) the depth and
\* alpha of every depth-sorted sprite are those of the actor's position after
\* that tick's Player.update, and the actor's depth is 200
C14_SorterUsesPositionAfterUpdate ==
    last.op \in TickOps =>
        LET playerX == pixelX(player)
            playerY == pixelY(player)
            behindObelisk == playerY * 10 < 6664
            inStoneSector == /\ playerX \in 300..559
                             /\ playerY \in 100..600
        IN  /\ playerDepth = 200
            /\ Obelisk.depth = (IF behindObelisk THEN 1000 ELSE 50)
            /\ Obelisk.alpha = (IF behindObelisk THEN 60 ELSE 100)
            /\ StoneSector.depth = 1000
            /\ StoneSector.alpha = (IF inStoneSector THEN 70 ELSE 100)
            /\ PlantTree.depth = 23
            /\ PlantTree.alpha = 100

\* a reset tick moved the actor from outside the stone sector's box and below
\* the obelisk's split line to the camera's centre, and the scenery shows it
C14_Witness ==
    /\ last.op = "reset"
    /\ player.x = CameraCenterX /\ player.y = CameraCenterY
    /\ Obelisk.depth = FrontDepth /\ Obelisk.alpha = ObeliskFrontAlpha
    /\ StoneSector.alpha = StoneSectorInsideAlpha
    /\ playerDepth = PlayerDepth

(***************************************************************************)
(* The collision cells of a created scene, polygon by polygon.             *)
(***************************************************************************)
Created == scene.phase = "created"

\* the index polygons.forEach gives to the object at place k of the layer
polygonIndex(layer, k) == Len(SelectSeq(SubSeq(layer, 1, k), collidablePolygon))

geometry(c) == [x |-> c.x, y |-> c.y, width |-> c.width, height |-> c.height]

\* the cells that come from the object at place k of the scene's layer
cellsOf(sc, k) ==
    {geometry(c) : c \in {d \in Range(sc.collisionObjects) :
                              d.polygon = polygonIndex(sc.layer, k)}}

\* the cells of an object that is alone in its layer
cellsAlone(obj) == cellsOf(create(bootScene(<<obj>>)), 1)

centresOf(cells) == {pt(c.x, c.y) : c \in cells}

\* the even-odd rule: a point is inside when the ray from it towards +x
\* crosses an odd number of edges; an edge is crossed when its lower end is
\* not above the ray, its upper end is above it, and it meets the ray's line
\* right of the point
edgeCrossed(x, y, a, b) ==
    LET lo == IF a.y <= b.y THEN a ELSE b
        hi == IF a.y <= b.y THEN b ELSE a
    IN  /\ lo.y <= y
        /\ y < hi.y
        /\ (hi.x - lo.x) * (y - lo.y) > (x - lo.x) * (hi.y - lo.y)

EvenOddInside(x, y, points) ==
    Cardinality({i \in DOMAIN points :
                    edgeCrossed(x, y, points[i], points[(i % Len(points)) + 1])}) % 2 = 1

\* the centres of the grid cells of the bounding-box walk
WalkCentres(points) ==
    LET minX == minOf({p.x : p \in Range(points)})
        maxX == maxOf({p.x : p \in Range(points)})
        minY == minOf({p.y : p \in Range(points)})
        maxY == maxOf({p.y : p \in Range(points)})
    IN  {pt(minX + 16 * i + 8, minY + 16 * j + 8) :
            i \in {n \in 0..(maxX - minX) : minX + 16 * n < maxX},
            j \in {n \in 0..(maxY - minY) : minY + 16 * n < maxY}}

\* C15: for every collidable polygon with at least 3 points the emitted cells
\* are exactly the cells of the bounding-box walk (pitch 16) whose centre is
\* inside the polygon under the even-odd rule: none outside, none omitted
C15_CellsAreTheInsideCentres ==
    Created =>
        \A k \in DOMAIN scene.layer :
            LET obj == scene.layer[k]
                points == pointsOf(obj)
            IN  (collidablePolygon(obj) /\ Len(points) >= 3) =>
                    centresOf(cellsOf(scene, k))
                        = {c \in WalkCentres(points) : EvenOddInside(c.x, c.y, points)}

\* an axis-aligned rectangle whose sides are positive multiples of r
RectangleOf(points, r) ==
    /\ Len(points) = 4
    /\ LET minX == minOf({p.x : p \in Range(points)})
           maxX == maxOf({p.x : p \in Range(points)})
           minY == minOf({p.y : p \in Range(points)})
           maxY == maxOf({p.y : p \in Range(points)})
       IN  /\ Range(points) = {pt(minX, minY), pt(maxX, minY),
                               pt(maxX, maxY), pt(minX, maxY)}
           /\ \A i \in 1..4 : LET a == points[i]
                                   b == points[(i % 4) + 1]
                               IN  (a.x = b.x) # (a.y = b.y)
           /\ maxX > minX /\ (maxX - minX) % r = 0
           /\ maxY > minY /\ (maxY - minY) % r = 0

\* C16: a collidable axis-aligned rectangle of width w and height h, both
\* positive multiples of 16, yields exactly (w/16)*(h/16) cells of size 16,
\* centred at (minX + 8 + 16 i, minY + 8 + 16 j); so the square with the
\* corners (0,0) and (32,32) yields the centres (8,8),(24,8),(8,24),(24,24)
C16_RectangleCellCount ==
    Created =>
        \A k \in DOMAIN scene.layer :
            LET obj == scene.layer[k]
                points == pointsOf(obj)
                minX == minOf({p.x : p \in Range(points)})
                maxX == maxOf({p.x : p \in Range(points)})
                minY == minOf({p.y : p \in Range(points)})
                maxY == maxOf({p.y : p \in Range(points)})
            IN  (collidablePolygon(obj) /\ RectangleOf(points, 16)) =>
                    /\ cellsOf(scene, k)
                          = {[x |-> minX + 8 + 16 * i, y |-> minY + 8 + 16 * j,
                              width |-> 16, height |-> 16] :
                                i \in 0..((maxX - minX) \div 16 - 1),
                                j \in 0..((maxY - minY) \div 16 - 1)}
                    /\ Cardinality({n \in DOMAIN scene.collisionObjects :
                                       scene.collisionObjects[n].polygon
                                           = polygonIndex(scene.layer, k)})
                          = ((maxX - minX) \div 16) * ((maxY - minY) \div 16)

\* a polygon that encloses no area: fewer than 3 points, or all of its
\* points on one line (coincident points included)
Degenerate(points) ==
    \/ Len(points) < 3
    \/ \A a \in Range(points), b \in Range(points), c \in Range(points) :
          (b.x - a.x) * (c.y - a.y) = (c.x - a.x) * (b.y - a.y)

\* C17: a collidable polygon that encloses no area yields no cells and raises
\* no error, and every other polygon of its layer yields the cells it yields
\* when it is alone in the layer
C17_DegenerateRejectedRestBuilt ==
    Created =>
        \A k \in DOMAIN scene.layer :
            (collidablePolygon(scene.layer[k]) /\ Degenerate(pointsOf(scene.layer[k]))) =>
                /\ cellsOf(scene, k) = {}
                /\ \A m \in DOMAIN scene.layer \ {k} :
                      collidablePolygon(scene.layer[m]) =>
                          cellsOf(scene, m) = cellsAlone(scene.layer[m])

\* the tilemap's tile size
TileSize == 16

\* C19: the left and the top edge of every cell lie at multiples of the tile
\* size, wherever the polygon is placed
C19_CellsOnTileGrid ==
    Created =>
        \A c \in Range(scene.collisionObjects) :
            /\ (c.x - c.width \div 2) % TileSize = 0
            /\ (c.y - c.height \div 2) % TileSize = 0

\* C20: the cells of a collidable polygon are those of any build of the same
\* ordered list of absolute points, whatever else is in the layer
C20_CellsDependOnPolygonOnly ==
    Created =>
        \A k \in DOMAIN scene.layer :
            collidablePolygon(scene.layer[k]) =>
                \A obj \in Objects :
                    (collidablePolygon(obj) /\ pointsOf(obj) = pointsOf(scene.layer[k])) =>
                        cellsOf(scene, k) = cellsAlone(obj)

\* position and size of the cells, in the order of collisionObjects
cellGeometry(sc) ==
    [n \in DOMAIN sc.collisionObjects |-> geometry(sc.collisionObjects[n])]

\* C18: at every moment of the scene's life (after every tick, actor event,
\* animation completion and debug key) the cells are those that create built
\* from the level: same number, same order, same positions and sizes
C18_CellsNeverChange ==
    cellGeometry(scene) = cellGeometry(create(bootScene(scene.layer)))

\* the debug keys have shown the cells and the tile collision layer, and the
\* actor has died and been reset
C18_Witness ==
    /\ scene.collisionObjects # << >>
    /\ \A c \in Range(scene.collisionObjects) : c.visible
    /\ scene.collisionLayerVisible /\ scene.debugShowBody
    /\ last.op = "reset" /\ last.pre.isDead

(***************************************************************************)
(* C21: when the level has no polygon object layer, scene creation leaves  *)
(* an empty set of collision cells, raises no error, and has created the   *)
(* scenery, the actor and the actor's collider with the blocking tiles.    *)
(***************************************************************************)
C21_NoObjectLayerStillPlayable ==
    (Created /\ ~scene.hasObjectLayer) =>
        /\ scene.collisionObjects = << >>
        /\ scene.debugGraphics = << >>
        /\ ~scene.error
        /\ scene.hasPlayer
        /\ scene.tileCollider
        /\ depthSortedObjects = SceneryObjects

C21_Witness ==
    /\ Created
    /\ ~scene.hasObjectLayer
    /\ scene.hasPlayer
    /\ last.op = "create"

(***************************************************************************)
(* C22: only polygon objects whose property collides is true yield         *)
(* collision cells: the cells of a level are those of the level with every *)
(* object without polygon, without the property or with collides = false   *)
(* taken out, and a level with only such objects has no cell.              *)
(***************************************************************************)
PolygonWithCollidesTrue(obj) == obj.hasPolygon /\ obj.collides = "true"

C22_OnlyCollidablePolygonsYieldCells ==
    (Created /\ scene.hasObjectLayer) =>
        /\ cellGeometry(scene) =
             cellGeometry(create(bootScene(
                 SelectSeq(scene.layer, PolygonWithCollidesTrue))))
        /\ (\A k \in DOMAIN scene.layer :
                ~PolygonWithCollidesTrue(scene.layer[k]))
             => scene.collisionObjects = << >>

C22_Witness ==
    /\ Created
    /\ \E i, j \in DOMAIN scene.layer :
          /\ scene.layer[i].hasPolygon
          /\ scene.layer[i].collides \in {"false", "none"}
          /\ PolygonWithCollidesTrue(scene.layer[j])
    /\ scene.collisionObjects # << >>

(***************************************************************************)
(* The sprites of the registry by the branch of the sorter they take.      *)
(***************************************************************************)
Sorted == last.op = "sort"

Obelisks ==
    {i \in DOMAIN depthSortedObjects :
        depthSortedObjects[i].texture = "obelisk_tower"}

StoneSectors ==
    {i \in DOMAIN depthSortedObjects :
        depthSortedObjects[i].texture = "stone_sector"}

Generics == DOMAIN depthSortedObjects \ (Obelisks \cup StoneSectors)

(***************************************************************************)
(* C23: after every tick with the actor at height y, an obelisk has depth  *)
(* 1000, above the actor's depth, and alpha 0.6 if y < 666.4, and depth    *)
(* 50, below the actor's depth, and alpha 1.0 if y >= 666.4, y = 666.4     *)
(* included; the actor's x plays no part.                                  *)
(***************************************************************************)
C23_SplitRule ==
    (Sorted /\ last.hasPlayer) =>
        \A i \in Obelisks :
            LET sprite == depthSortedObjects[i]
            IN  IF last.y < 6664
                THEN sprite.depth = 1000 /\ sprite.depth > playerDepth
                     /\ sprite.alpha = 60
                ELSE sprite.depth = 50 /\ sprite.depth < playerDepth
                     /\ sprite.alpha = 100

C23_Witness ==
    /\ Sorted /\ last.hasPlayer
    /\ last.y = 6664
    /\ \E i \in Obelisks : depthSortedObjects[i].depth = 50
                             /\ depthSortedObjects[i].alpha = 100

(***************************************************************************)
(* C24: the split line of an obelisk is that of its own footprint: with    *)
(* the footprint's top at baseY = y - H and its height H, the obelisk is   *)
(* in front of the actor exactly when actor.y < baseY + 0.65 * H.          *)
(***************************************************************************)
\* baseY + 0.65 * H of a sprite's footprint, in hundredths of a pixel
splitYOf(sprite) == (sprite.y - sprite.height) * 100 + sprite.height * 65

C24_SplitLineFromOwnFootprint ==
    (Sorted /\ last.hasPlayer) =>
        \A i \in Obelisks :
            LET sprite == depthSortedObjects[i]
            IN  (sprite.depth = 1000) <=> (last.y * 10 < splitYOf(sprite))

(***************************************************************************)
(* C25: after every tick a stone sector has depth 1000, above the actor's  *)
(* depth, wherever the actor is, and alpha 0.7 exactly when the actor is   *)
(* in [x, x + 259] x [y - 500, y], boundaries included, else alpha 1.0.    *)
(***************************************************************************)
C25_ContainmentRule ==
    (Sorted /\ last.hasPlayer) =>
        \A i \in StoneSectors :
            LET sprite == depthSortedObjects[i]
                inside == /\ sprite.x * 10 <= last.x
                          /\ last.x <= (sprite.x + 259) * 10
                          /\ (sprite.y - 500) * 10 <= last.y
                          /\ last.y <= sprite.y * 10
            IN  /\ sprite.depth = 1000
                /\ sprite.depth > playerDepth
                /\ sprite.alpha = (IF inside THEN 70 ELSE 100)

\* the actor on the right edge and the top edge of the box
C25_Witness ==
    /\ Sorted /\ last.hasPlayer
    /\ last.x = 5590 /\ last.y = 1000
    /\ \E i \in StoneSectors :
          /\ depthSortedObjects[i].x = 300 /\ depthSortedObjects[i].y = 600
          /\ depthSortedObjects[i].alpha = 70
          /\ depthSortedObjects[i].depth = 1000

C27_GenericRule ==
    Sorted =>
        /\ \A i \in Generics :
              LET sprite == depthSortedObjects[i]
              IN  /\ 32 * sprite.depth <= sprite.y
                  /\ sprite.y < 32 * sprite.depth + 32
        /\ \A a, b \in Generics :
              depthSortedObjects[a].y <= depthSortedObjects[b].y
                  => depthSortedObjects[a].depth <= depthSortedObjects[b].depth

\* anchors 63 and 64, on the two sides of a depth line
C27_Witness ==
    /\ Sorted /\ last.hasPlayer
    /\ \E a, b \in Generics :
          /\ depthSortedObjects[a].y = 63 /\ depthSortedObjects[a].depth = 1
          /\ depthSortedObjects[b].y = 64 /\ depthSortedObjects[b].depth = 2

(***************************************************************************)
(* C28: at the end of every tick the depth and alpha of every depth-sorted *)
(* sprite are those the sorter gives the sprite as it was created, at the  *)
(* actor's current position: whatever ticks came before, equal positions   *)
(* give equal depths and alphas.                                           *)
(***************************************************************************)
C28_SortedFromPositionAlone ==
    last.op \in TickOps =>
        \A i \in DOMAIN depthSortedObjects :
            LET now == depthSortedObjects[i]
                fresh == sortSprite(SceneryObjects[i], pixelX(player) * SubPx,
                                    pixelY(player) * SubPx)
            IN  now.depth = fresh.depth /\ now.alpha = fresh.alpha

\* a tick of the dead actor, which walked up from its spawn point before
C28_Witness ==
    /\ last.op = "dead"
    /\ player.x = SpawnX /\ player.y = 0
    /\ Obelisk.alpha = ObeliskFrontAlpha
    /\ StoneSector.alpha = OpaqueAlpha

(***************************************************************************)
(* C29: scene creation raises no error whatever the gids of the animation  *)
(* object layers; an object whose gid is none of 11169, 11177, 11185,      *)
(* 11193, 11209, 11215..11221, 11223..11225 is in neither registry, and    *)
(* the other objects of its layer are registered, in the layer's order.    *)
(***************************************************************************)
KnownGids ==
    {11169, 11177, 11185, 11193, 11209} \cup (11215..11221) \cup (11223..11225)

HasKnownGid(obj) == obj.gid \in KnownGids

placeOf(obj) == <<obj.x, obj.y>>

placesOf(objs) == [i \in DOMAIN objs |-> placeOf(objs[i])]

C29_UnknownGidSkipped ==
    Created =>
        /\ ~scene.error
        /\ scene.hasPlayer
        /\ placesOf(scene.animatedObjects) =
             placesOf(SelectSeq(scene.objectLayer1, HasKnownGid))
        /\ placesOf(depthSortedObjects) =
             placesOf(SelectSeq(scene.objectLayer2, HasKnownGid))

\* an unknown gid before a known one in the fixed-depth layer, and an
\* object without gid before a known one in the depth-sorted layer
C29_Witness ==
    /\ Created
    /\ Len(scene.objectLayer1) = 2 /\ scene.objectLayer1[1].gid = 11222
    /\ Len(scene.animatedObjects) = 1
    /\ Len(scene.objectLayer2) = 2 /\ scene.objectLayer2[1].gid = 0
    /\ Len(depthSortedObjects) = 1

(***************************************************************************)
(* C30: after a tick with a Reset command the actor is at its spawn point, *)
(* the position createPlayer gave it.                                      *)
(***************************************************************************)
C30_ResetToSpawnPoint ==
    last.op = "reset" => (player.x = SpawnX /\ player.y = SpawnY)

(***************************************************************************)
(* C31: an arrow key held moves the actor as the corresponding letter key  *)
(* does (Left = A, Right = D, Up = W, Down = S): after every tick that     *)
(* finds the actor Idle or Walking with no trigger pressed, the velocity   *)
(* is the one asked for by the keys held, arrows read as letters, and the  *)
(* actor is Walking exactly when such a key is held.                       *)
(***************************************************************************)
letterOf(k) ==
    IF k = "LEFT" THEN "A" ELSE IF k = "RIGHT" THEN "D"
    ELSE IF k = "UP" THEN "W" ELSE IF k = "DOWN" THEN "S" ELSE k

lettersOf(hd) == {letterOf(k) : k \in hd}

C31_ArrowKeysMoveLikeLetters ==
    last.op = "move" =>
        /\ player.vx = horizontalOf(lettersOf(held))
        /\ player.vy = verticalOf(lettersOf(held))
        /\ IsWalking(player) <=> (held # {})

(***************************************************************************)
(* C32: no permanent lock-up: an actor that is not Dead eventually is Idle *)
(* or Walking (none of Attacking, Hurt, Dead set), unless it dies first;   *)
(* so the Attacking flag of an accepted attack is eventually cleared, also *)
(* when a Hurt trigger interrupts the attack.                              *)
(***************************************************************************)
C32_NoPermanentLockUp ==
    (~player.isDead) ~> (player.isDead \/ NoFlags(player))

(***************************************************************************)
(* C33: attackCooldown is 0 in every reachable state: nothing sets it to a *)
(* positive value and the decrement of the tick never takes it below 0.    *)
(***************************************************************************)
C33_CooldownAlwaysZero == player.attackCooldown = 0

\* an attack accepted in a tick, by an actor that has walked before
C33_Witness ==
    /\ last.op = "attack"
    /\ player.isAttacking /\ player.isMoving
    /\ player.attackCooldown = 0

(***************************************************************************)
(* C34: the physics body is disabled only while the actor is Dead: it is   *)
(* disabled in the state after the death animation's completion event, it  *)
(* stays disabled over every step but a Reset, and it is enabled in every  *)
(* state in which the actor is not Dead.                                   *)
(***************************************************************************)
C34_BodyDisabledOnlyWhileDead ==
    /\ ~player.bodyEnable => player.isDead
    /\ last.op = "jiwatron-death" => ~player.bodyEnable
    /\ (~last.pre.bodyEnable /\ last.op # "reset") => ~player.bodyEnable

\* the completion event of the death animation has just disabled the body
C34_Witness ==
    /\ last.op = "jiwatron-death"
    /\ last.pre.bodyEnable /\ last.pre.isDead
    /\ ~player.bodyEnable /\ player.isDead

(***************************************************************************)
(* C35: a tick applies at most one of Reset, Hurt, Death, attack and       *)
(* movement, the first in this order whose trigger the tick evaluates: the *)
(* actor after the tick is the actor before it with that one handler       *)
(* applied. A tick that evaluates Hurt or Death applies no attack and no   *)
(* movement; a tick that accepts an attack leaves the actor standing.      *)
(***************************************************************************)
C35_OneTriggerPerTick ==
    [][/\ Ticks("reset") => player' = resetCharacter(player)
       /\ Ticks("dead") => player' = player
       /\ Ticks("hurt") => player' = playHurt(player)
       /\ Ticks("death") => player' = playDeath(player)
       /\ Ticks("locked") => player' = player
       /\ Ticks("attack") =>
             /\ player' = attack(player, attackAnimOf(last'.jd))
             /\ player'.isAttacking /\ Still(player')
       /\ Ticks("move") => player' = handleMovement(player, held)]_vars

\* a tick with Hurt and an attack pressed and a movement key held that
\* found the actor Walking: only Hurt took effect
C35_Witness ==
    /\ last.op = "hurt"
    /\ "H" \in last.jd /\ last.atk /\ held # {}
    /\ last.pre.moving
    /\ player.isHurt /\ ~player.isDead /\ ~player.isAttacking /\ Still(player)

(***************************************************************************)
(* C36: a collidable polygon is built whatever its object's origin, an     *)
(* origin with x = 0 or y = 0 included: in a level built without error,    *)
(* every collidable polygon with the centre of some cell of its walk       *)
(* inside it has cells.                                                    *)
(***************************************************************************)
C36_BuiltForEveryOrigin ==
    (Created /\ ~scene.error) =>
        \A k \in DOMAIN scene.layer :
            LET obj == scene.layer[k]
                points == pointsOf(obj)
            IN  (/\ obj.hasPolygon /\ obj.collides = "true"
                 /\ Len(points) >= 3
                 /\ \E c \in WalkCentres(points) : EvenOddInside(c.x, c.y, points))
                    => cellsOf(scene, k) # {}

(***************************************************************************)
(* C37: a tick that accepts an attack with several attack keys pressed     *)
(* starts one attack, the lowest-numbered of the variants pressed: after   *)
(* the tick the actor is Attacking and plays attack-1 if J was pressed,    *)
(* else attack-2 if K was, else attack-3.                                  *)
(***************************************************************************)
C37_LowestVariantWins ==
    last.op = "attack" =>
        /\ player.isAttacking /\ player.animPlaying
        /\ "J" \in last.jd => player.animKey = "jiwatron-attack1"
        /\ ("J" \notin last.jd /\ "K" \in last.jd)
              => player.animKey = "jiwatron-attack2"
        /\ ("J" \notin last.jd /\ "K" \notin last.jd)
              => player.animKey = "jiwatron-attack3"

\* K and L pressed in the same tick: attack-2 started
C37_Witness ==
    /\ last.op = "attack"
    /\ last.jd = {"K", "L"}
    /\ player.isAttacking
    /\ player.animKey = "jiwatron-attack2"

(***************************************************************************)
(* C38: actor controls and debug controls do not interfere: a frame in     *)
(* which a debug key (C, R, P, I, B) went down leaves the actor as the     *)
(* frame without the key would, and a frame in which an actor key (J, K,   *)
(* L, H, P, R) went down leaves the debug flag and the visibility of the   *)
(* cells, the debug graphics and the tile layer unchanged.                 *)
(***************************************************************************)
C38_ControlsDoNotInterfere ==
    [][\A k \in PressKeys :
          PressKey(k) =>
              /\ k \in DebugKeys => player' = update(player, {}, held)
              /\ k \in JustKeys => scene' = scene]_vars

====
